---- MODULE Spec2Model ----
(***************************************************************************)
(* The DeepSparse LLM adapter (langchain/llms/deepsparse.py): construction *)
(* of the pipeline, generate (_call / _acall), and streaming (_stream /    *)
(* _astream) with its background worker thread and TextIteratorStreamer    *)
(* queue.  Strings are sequences of characters.                            *)
(***************************************************************************)
EXTENDS Integers, Sequences, FiniteSets, TLC

VARIABLES
    installed,  \* whether `from deepsparse import Pipeline` succeeds
    engine,     \* the deterministic engine: prompt -> what the pipeline does
    adapter,    \* the DeepSparse instance (fields of the pydantic model)
    createLog,  \* the Pipeline.create calls made so far, with their arguments
    calls,      \* one record per call of an adapter operation
    loop        \* the task running on the asyncio event-loop thread

vars == <<installed, engine, adapter, createLog, calls, loop>>

(* ------------------------------ bounds -------------------------------- *)

MaxChunks == 2      \* most chunks the engine's streamer emits for a prompt
MaxStops == 2       \* most stop sequences in a supplied stop list

(* ------------------------------ values -------------------------------- *)

None == "None"
NoTask == "NoTask"

Prompts == {"Once upon a time"}
Models == {"zoo:stub"}
Tokens == {<<"a">>, <<"b", "a">>}
StopStrings == {<<"b">>, <<"a", "b">>}

SeqsUpTo(S, n) == UNION {[1..k -> S] : k \in 0..n}

\* Optional[List[str]]: absent (None) or a list, possibly empty.
NoStop == [given |-> FALSE, list |-> <<>>]
StopArgs == {NoStop} \cup {[given |-> TRUE, list |-> l] : l \in SeqsUpTo(StopStrings, MaxStops)}
EmptyStopArgs == {NoStop, [given |-> TRUE, list |-> <<>>]}

\* Optional[Dict[str, Any]]: absent or a mapping, as a set of <<key, value>>.
ConfigArgs ==
    { [given |-> FALSE, opts |-> {}],
      [given |-> TRUE, opts |-> {}],
      [given |-> TRUE, opts |-> {<<"prompt_sequence_length", 1>>}] }

SyncKinds == {"call", "stream"}
AsyncKinds == {"acall", "astream"}
GenerateKinds == {"call", "acall"}
StreamKinds == {"stream", "astream"}
Kinds == GenerateKinds \cup StreamKinds

(* ------------------------------ engine -------------------------------- *)

\* What the opaque pipeline does for a prompt: the chunks its streamer emits
\* (their concatenation is the first sequence it returns), and whether the
\* invocation then returns ("ok") or raises, without ("raise") or with
\* ("raise_end") the streamer having been ended.
Outcomes == {"ok", "raise", "raise_end"}
EngineBehaviours == [chunks : SeqsUpTo(Tokens, MaxChunks), outcome : Outcomes]

RECURSIVE Concat(_)
Concat(ss) == IF ss = <<>> THEN <<>> ELSE Head(ss) \o Concat(Tail(ss))

\* self.pipeline(sequences=prompt).sequences[0]
Sequences0(prompt) == Concat(engine[prompt].chunks)

EngineRaises(prompt) == engine[prompt].outcome # "ok"

\* Items of TextIteratorStreamer.text_queue: a text, or the stop signal.
TextItem(t) == [stop |-> FALSE, text |-> t]
StopSignal == [stop |-> TRUE, text |-> <<>>]

GenerationChunk(token) == [text |-> token]

(* ----------------------- enforce_stop_tokens -------------------------- *)

MatchAt(text, s, i) ==
    /\ i + Len(s) - 1 <= Len(text)
    /\ SubSeq(text, i, i + Len(s) - 1) = s

AnyMatchAt(text, stop, i) == \E k \in 1..Len(stop) : MatchAt(text, stop[k], i)

\* Scan left to right; cut at the first position where a stop sequence starts.
RECURSIVE CutFrom(_, _, _)
CutFrom(text, stop, i) ==
    IF i > Len(text) THEN text
    ELSE IF AnyMatchAt(text, stop, i) THEN SubSeq(text, 1, i - 1)
    ELSE CutFrom(text, stop, i + 1)

enforce_stop_tokens(text, stop) == CutFrom(text, stop, 1)

(* ------------------------------ state --------------------------------- *)

IdleCall ==
    [ kind |-> None, prompt |-> None, stop |-> NoStop, observer |-> FALSE,
      pc |-> "idle",
      streamed |-> FALSE,     \* took the streaming path
      invocations |-> 0,      \* pipeline invocations made for this call
      started |-> 0,          \* Thread.start() calls made for this call
      worker |-> "none",      \* none, running, returning, raising, finished, crashed
      workerPos |-> 0,        \* chunks the worker has put so far
      queue |-> <<>>,         \* streamer.text_queue
      joined |-> FALSE,       \* thread.join() has returned
      produced |-> <<>>,      \* GenerationChunks yielded so far
      notified |-> <<>>,      \* tokens passed to on_llm_new_token so far
      combined |-> <<>>,      \* combined_output
      text |-> <<>>,          \* text before stop handling
      result |-> <<>>,        \* the returned string
      error |-> None ]        \* the exception raised to the caller

InitWith(tasks) ==
    /\ installed \in BOOLEAN
    /\ engine \in [Prompts -> EngineBehaviours]
    /\ adapter = [ state |-> "unbuilt", error |-> None, pipeline |-> None,
                   model |-> None, config |-> [given |-> FALSE, opts |-> {}],
                   streaming |-> FALSE ]
    /\ createLog = <<>>
    /\ calls = [c \in tasks |-> IdleCall]
    /\ loop = NoTask

Init == InitWith({"t1"})

Slots == DOMAIN calls

IsAsync(c) == calls[c].kind \in AsyncKinds
\* An async step runs on the event-loop thread, which its task must hold.
OnLoop(c) == IsAsync(c) => loop = c
\* The loop after a step that ends or suspends the task of call c.
Released(c) == IF IsAsync(c) THEN NoTask ELSE loop

(* --------------------------- construction ----------------------------- *)

\* Variant: the pipeline is created before the import is checked.
validate_environment_CreatesFirst(model, config, streaming, createOk) ==
    /\ adapter.state = "unbuilt"
    /\ createLog' = Append(createLog,
           [ task |-> "text_generation", model_path |-> model,
             kwargs |-> IF config.given THEN config.opts ELSE {} ])
    /\ adapter' =
         IF ~installed
         THEN [adapter EXCEPT !.state = "failed", !.error = "ImportError"]
         ELSE IF createOk
         THEN [adapter EXCEPT !.state = "ready", !.pipeline = "pipeline",
                              !.model = model, !.config = config,
                              !.streaming = streaming]
         ELSE [adapter EXCEPT !.state = "failed", !.error = "EngineError"]
    /\ UNCHANGED <<installed, engine, calls, loop>>

\* DeepSparse(model=..., config=..., streaming=...): the root validator.
\* createOk: whether Pipeline.create returns (else the engine raises).
validate_environment(model, config, streaming, createOk) ==
    /\ adapter.state = "unbuilt"
    /\ IF ~installed
       THEN /\ adapter' = [adapter EXCEPT !.state = "failed", !.error = "ImportError"]
            /\ UNCHANGED createLog
       ELSE /\ createLog' = Append(createLog,
                   [ task |-> "text_generation", model_path |-> model,
                     kwargs |-> IF config.given THEN config.opts ELSE {} ])
            /\ adapter' =
                 IF createOk
                 THEN [adapter EXCEPT !.state = "ready", !.pipeline = "pipeline",
                                      !.model = model, !.config = config,
                                      !.streaming = streaming]
                 ELSE [adapter EXCEPT !.state = "failed", !.error = "EngineError"]
    /\ UNCHANGED <<installed, engine, calls, loop>>

Construct ==
    \E model \in Models, config \in ConfigArgs, streaming \in BOOLEAN, createOk \in BOOLEAN :
        validate_environment(model, config, streaming, createOk)

(* ------------------------- starting a call ---------------------------- *)

\* A caller invokes an adapter operation.  A sync call runs on the caller's
\* thread at once; an async call is a task scheduled on the event loop.
\* observer: whether a run_manager is passed.
Start(c, kind, prompt, stop, observer) ==
    /\ adapter.state = "ready"
    /\ calls[c].pc = "idle"
    /\ calls' = [calls EXCEPT ![c] =
           [IdleCall EXCEPT !.kind = kind, !.prompt = prompt, !.stop = stop,
                            !.observer = observer,
                            !.pc = IF kind \in AsyncKinds THEN "scheduled" ELSE "entry"]]
    /\ UNCHANGED <<installed, engine, adapter, createLog, loop>>

StartCall(c) ==
    \E kind \in Kinds, prompt \in Prompts, stop \in StopArgs, observer \in BOOLEAN :
        Start(c, kind, prompt, stop, observer)

\* Concurrent generate calls with the stop list absent or empty, made as
\* llm.generate / llm.agenerate make them: a run manager is always passed.
StartTask(c) ==
    \E kind \in GenerateKinds, prompt \in Prompts, stop \in EmptyStopArgs :
        Start(c, kind, prompt, stop, TRUE)

\* The event loop picks a scheduled task and runs it.
AsyncRun(c) ==
    /\ calls[c].pc = "scheduled"
    /\ loop = NoTask
    /\ loop' = c
    /\ calls' = [calls EXCEPT ![c].pc = "entry"]
    /\ UNCHANGED <<installed, engine, adapter, createLog>>

\* The event loop resumes a task suspended in `await on_llm_new_token`.
AsyncWake(c) ==
    /\ calls[c].pc = "awaiting"
    /\ loop = NoTask
    /\ loop' = c
    /\ calls' = [calls EXCEPT ![c].pc = "getting"]
    /\ UNCHANGED <<installed, engine, adapter, createLog>>

(* ---------------------- generate: _call / _acall ----------------------- *)

\* streaming disabled: self.pipeline(sequences=prompt) is entered on the
\* calling thread (for _acall: the event-loop thread).
CallInvoke(c) ==
    /\ calls[c].pc = "entry"
    /\ calls[c].kind \in GenerateKinds
    /\ ~adapter.streaming
    /\ OnLoop(c)
    /\ calls' = [calls EXCEPT ![c].pc = "invoking",
                              ![c].invocations = calls[c].invocations + 1]
    /\ UNCHANGED <<installed, engine, adapter, createLog, loop>>

\* The pipeline returns (text = .sequences[0]) or raises to the caller.
CallInvokeReturn(c) ==
    /\ calls[c].pc = "invoking"
    /\ OnLoop(c)
    /\ IF EngineRaises(calls[c].prompt)
       THEN /\ calls' = [calls EXCEPT ![c].pc = "raised", ![c].error = "EngineError"]
            /\ loop' = Released(c)
       ELSE /\ calls' = [calls EXCEPT ![c].pc = "have_text",
                                      ![c].text = Sequences0(calls[c].prompt)]
            /\ UNCHANGED loop
    /\ UNCHANGED <<installed, engine, adapter, createLog>>

\* Variant: the stop list is applied only to the non-streaming result.
CallReturn_StopIgnoredWhenStreamed(c) ==
    /\ calls[c].pc = "have_text"
    /\ OnLoop(c)
    /\ calls' = [calls EXCEPT
           ![c].pc = "returned",
           ![c].result = IF calls[c].stop.given /\ ~calls[c].streamed
                         THEN enforce_stop_tokens(calls[c].text, calls[c].stop.list)
                         ELSE calls[c].text]
    /\ loop' = Released(c)
    /\ UNCHANGED <<installed, engine, adapter, createLog>>

\* if stop is not None: text = enforce_stop_tokens(text, stop); return text
CallReturn(c) ==
    /\ calls[c].pc = "have_text"
    /\ OnLoop(c)
    /\ calls' = [calls EXCEPT
           ![c].pc = "returned",
           ![c].result = IF calls[c].stop.given
                         THEN enforce_stop_tokens(calls[c].text, calls[c].stop.list)
                         ELSE calls[c].text]
    /\ loop' = Released(c)
    /\ UNCHANGED <<installed, engine, adapter, createLog>>

(* --------------------- streaming: _stream / _astream ------------------- *)

\* First step of the generator: the streamer is created and the worker
\* thread running the pipeline is started.  Reached from a stream call, or
\* from generate with streaming enabled.
StreamStart(c) ==
    /\ calls[c].pc = "entry"
    /\ calls[c].kind \in StreamKinds \/ adapter.streaming
    /\ OnLoop(c)
    /\ calls' = [calls EXCEPT ![c].pc = "getting",
                              ![c].streamed = TRUE,
                              ![c].worker = "running",
                              ![c].started = calls[c].started + 1,
                              ![c].invocations = calls[c].invocations + 1]
    /\ UNCHANGED <<installed, engine, adapter, createLog, loop>>

\* Variant: combined_output = chunk.text instead of +=.
StreamGet_OverwritesCombined(c) ==
    /\ calls[c].pc = "getting"
    /\ calls[c].queue # <<>>
    /\ OnLoop(c)
    /\ LET item == Head(calls[c].queue)
           chunk == GenerationChunk(item.text)
       IN IF item.stop
          THEN /\ calls' = [calls EXCEPT ![c].pc = "joining",
                                         ![c].queue = Tail(calls[c].queue)]
               /\ UNCHANGED loop
          ELSE /\ calls' = [calls EXCEPT
                      ![c].pc = "yielded",
                      ![c].queue = Tail(calls[c].queue),
                      ![c].produced = Append(calls[c].produced, chunk),
                      ![c].combined = IF calls[c].kind \in GenerateKinds
                                      THEN chunk.text
                                      ELSE calls[c].combined]
               /\ loop' = IF calls[c].kind = "astream" THEN NoTask ELSE loop
    /\ UNCHANGED <<installed, engine, adapter, createLog>>

\* Variant: _acall drops the chunks of the stream.
StreamGet_AsyncNotCombined(c) ==
    /\ calls[c].pc = "getting"
    /\ calls[c].queue # <<>>
    /\ OnLoop(c)
    /\ LET item == Head(calls[c].queue)
           chunk == GenerationChunk(item.text)
       IN IF item.stop
          THEN /\ calls' = [calls EXCEPT ![c].pc = "joining",
                                         ![c].queue = Tail(calls[c].queue)]
               /\ UNCHANGED loop
          ELSE /\ calls' = [calls EXCEPT
                      ![c].pc = "yielded",
                      ![c].queue = Tail(calls[c].queue),
                      ![c].produced = Append(calls[c].produced, chunk),
                      ![c].combined = IF calls[c].kind = "call"
                                      THEN calls[c].combined \o chunk.text
                                      ELSE calls[c].combined]
               /\ loop' = IF calls[c].kind = "astream" THEN NoTask ELSE loop
    /\ UNCHANGED <<installed, engine, adapter, createLog>>

\* Variant: the emission ends at the first chunk that completes a stop sequence.
StreamGet_StopsAtStop(c) ==
    /\ calls[c].pc = "getting"
    /\ calls[c].queue # <<>>
    /\ OnLoop(c)
    /\ LET item == Head(calls[c].queue)
           chunk == GenerationChunk(item.text)
           sofar == Concat([i \in 1..Len(calls[c].produced) |-> calls[c].produced[i].text])
                        \o item.text
       IN IF \/ item.stop
             \/ /\ calls[c].stop.given
                /\ enforce_stop_tokens(sofar, calls[c].stop.list) # sofar
          THEN /\ calls' = [calls EXCEPT ![c].pc = "joining",
                                         ![c].queue = Tail(calls[c].queue)]
               /\ UNCHANGED loop
          ELSE /\ calls' = [calls EXCEPT
                      ![c].pc = "yielded",
                      ![c].queue = Tail(calls[c].queue),
                      ![c].produced = Append(calls[c].produced, chunk),
                      ![c].combined = IF calls[c].kind \in GenerateKinds
                                      THEN calls[c].combined \o chunk.text
                                      ELSE calls[c].combined]
               /\ loop' = IF calls[c].kind = "astream" THEN NoTask ELSE loop
    /\ UNCHANGED <<installed, engine, adapter, createLog>>

\* `for token in streamer`: a blocking get from the queue.  The stop signal
\* ends the loop; a text is wrapped in a chunk and yielded.  In generate the
\* consumer is the loop of _call / _acall, which adds the chunk's text to
\* combined_output; an external async consumer gets control back.
StreamGet(c) ==
    /\ calls[c].pc = "getting"
    /\ calls[c].queue # <<>>
    /\ OnLoop(c)
    /\ LET item == Head(calls[c].queue)
           chunk == GenerationChunk(item.text)
       IN IF item.stop
          THEN /\ calls' = [calls EXCEPT ![c].pc = "joining",
                                         ![c].queue = Tail(calls[c].queue)]
               /\ UNCHANGED loop
          ELSE /\ calls' = [calls EXCEPT
                      ![c].pc = "yielded",
                      ![c].queue = Tail(calls[c].queue),
                      ![c].produced = Append(calls[c].produced, chunk),
                      ![c].combined = IF calls[c].kind \in GenerateKinds
                                      THEN calls[c].combined \o chunk.text
                                      ELSE calls[c].combined]
               /\ loop' = IF calls[c].kind = "astream" THEN NoTask ELSE loop
    /\ UNCHANGED <<installed, engine, adapter, createLog>>

\* The consumer asks for the next item: the generator resumes after its
\* yield and reports the chunk to the observer, if there is one.  In
\* _astream the report is awaited, which may suspend the task.
StreamResume(c) ==
    /\ calls[c].pc = "yielded"
    /\ IF calls[c].kind = "astream" THEN loop = NoTask ELSE OnLoop(c)
    /\ \E suspends \in IF IsAsync(c) /\ calls[c].observer THEN BOOLEAN ELSE {FALSE} :
          /\ calls' = [calls EXCEPT
                 ![c].pc = IF suspends THEN "awaiting" ELSE "getting",
                 ![c].notified = IF calls[c].observer
                                 THEN Append(calls[c].notified,
                                             calls[c].produced[Len(calls[c].produced)].text)
                                 ELSE calls[c].notified]
          /\ loop' = IF IsAsync(c) THEN (IF suspends THEN NoTask ELSE c) ELSE loop
    /\ UNCHANGED <<installed, engine, adapter, createLog>>

\* Variant: the generator ends without waiting for the worker thread.
StreamJoin_NoWait(c) ==
    /\ calls[c].pc = "joining"
    /\ OnLoop(c)
    /\ IF calls[c].kind \in StreamKinds
       THEN /\ calls' = [calls EXCEPT ![c].pc = "done", ![c].joined = TRUE]
            /\ loop' = Released(c)
       ELSE /\ calls' = [calls EXCEPT ![c].pc = "have_text", ![c].joined = TRUE,
                                      ![c].text = calls[c].combined]
            /\ UNCHANGED loop
    /\ UNCHANGED <<installed, engine, adapter, createLog>>

\* thread.join(): returns once the worker thread has terminated.  The
\* generator is then exhausted; generate goes on with text = combined_output.
StreamJoin(c) ==
    /\ calls[c].pc = "joining"
    /\ calls[c].worker \in {"finished", "crashed"}
    /\ OnLoop(c)
    /\ IF calls[c].kind \in StreamKinds
       THEN /\ calls' = [calls EXCEPT ![c].pc = "done", ![c].joined = TRUE]
            /\ loop' = Released(c)
       ELSE /\ calls' = [calls EXCEPT ![c].pc = "have_text", ![c].joined = TRUE,
                                      ![c].text = calls[c].combined]
            /\ UNCHANGED loop
    /\ UNCHANGED <<installed, engine, adapter, createLog>>

\* The consumer stops iterating: the generator is closed while suspended at
\* its yield (GeneratorExit), so nothing after the yield runs.
StreamClose(c) ==
    /\ calls[c].pc = "yielded"
    /\ calls[c].kind \in StreamKinds
    /\ calls[c].kind = "astream" => loop = NoTask
    /\ calls' = [calls EXCEPT ![c].pc = "closed"]
    /\ UNCHANGED <<installed, engine, adapter, createLog, loop>>

(* ------------------- the worker thread (Thread.run) -------------------- *)

\* The pipeline, running in the worker, has the streamer emit its next text.
WorkerPut(c) ==
    /\ calls[c].worker = "running"
    /\ calls[c].workerPos < Len(engine[calls[c].prompt].chunks)
    /\ calls' = [calls EXCEPT
           ![c].workerPos = calls[c].workerPos + 1,
           ![c].queue = Append(calls[c].queue,
                               TextItem(engine[calls[c].prompt].chunks[calls[c].workerPos + 1]))]
    /\ UNCHANGED <<installed, engine, adapter, createLog, loop>>

\* The pipeline finishes generating: it ends the streamer and returns, or it
\* raises (having ended the streamer or not).
WorkerEnd(c) ==
    /\ calls[c].worker = "running"
    /\ calls[c].workerPos = Len(engine[calls[c].prompt].chunks)
    /\ LET outcome == engine[calls[c].prompt].outcome
       IN calls' = [calls EXCEPT
              ![c].worker = IF outcome = "ok" THEN "returning" ELSE "raising",
              ![c].queue = IF outcome = "raise"
                           THEN calls[c].queue
                           ELSE Append(calls[c].queue, StopSignal)]
    /\ UNCHANGED <<installed, engine, adapter, createLog, loop>>

\* The thread's target returns or raises; the thread terminates.  An
\* exception ends in the thread's excepthook, not in the caller.
WorkerExit(c) ==
    /\ calls[c].worker \in {"returning", "raising"}
    /\ calls' = [calls EXCEPT
           ![c].worker = IF calls[c].worker = "returning" THEN "finished" ELSE "crashed"]
    /\ UNCHANGED <<installed, engine, adapter, createLog, loop>>

(* --------------------------- specifications ---------------------------- *)

\* A step of a call that is under way, or of its worker thread.
Step(c) ==
    \/ AsyncRun(c)
    \/ AsyncWake(c)
    \/ CallInvoke(c)
    \/ CallInvokeReturn(c)
    \/ CallReturn(c)
    \/ StreamStart(c)
    \/ StreamGet(c)
    \/ StreamResume(c)
    \/ StreamJoin(c)
    \/ WorkerPut(c)
    \/ WorkerEnd(c)
    \/ WorkerExit(c)

Steps ==
    \/ \E c \in Slots : AsyncRun(c)
    \/ \E c \in Slots : AsyncWake(c)
    \/ \E c \in Slots : CallInvoke(c)
    \/ \E c \in Slots : CallInvokeReturn(c)
    \/ \E c \in Slots : CallReturn(c)
    \/ \E c \in Slots : StreamStart(c)
    \/ \E c \in Slots : StreamGet(c)
    \/ \E c \in Slots : StreamResume(c)
    \/ \E c \in Slots : StreamJoin(c)
    \/ \E c \in Slots : WorkerPut(c)
    \/ \E c \in Slots : WorkerEnd(c)
    \/ \E c \in Slots : WorkerExit(c)

\* One call of any kind, with every prompt and stop list; the consumer of a
\* stream may stop iterating.
Next ==
    \/ Construct
    \/ \E c \in Slots : StartCall(c)
    \/ Steps
    \/ \E c \in Slots : StreamClose(c)

Spec == Init /\ [][Next]_vars

\* Two generate calls at once, on threads and on one event loop.
LoopInit == InitWith({"t1", "t2"})

LoopNext ==
    \/ Construct
    \/ \E c \in Slots : StartTask(c)
    \/ Steps

LoopSpec == LoopInit /\ [][LoopNext]_vars

\* A consumer that keeps iterating, and threads that keep being scheduled.
LiveNext ==
    \/ Construct
    \/ \E c \in Slots : StartCall(c)
    \/ Steps

LiveSpec == Init /\ [][LiveNext]_vars /\ \A c \in {"t1"} : WF_vars(Step(c))

(* ------------------------------ properties ----------------------------- *)

Tasks1 == {"t1"}

Texts(chunks) == [i \in 1..Len(chunks) |-> chunks[i].text]
IsPrefix(a, b) == Len(a) <= Len(b) /\ SubSeq(b, 1, Len(a)) = a
EngineChunks(c) == engine[calls[c].prompt].chunks
Over(c) == calls[c].pc \in {"returned", "raised", "done", "closed"}
Terminated(c) == calls[c].worker \in {"finished", "crashed"}

\* s occurs in text starting at position i.
OccursAt(s, text, i) ==
    \A j \in 1..Len(s) : i + j - 1 <= Len(text) /\ text[i + j - 1] = s[j]
Occurrences(stop, text) ==
    {i \in 1..Len(text) : \E k \in 1..Len(stop) : OccursAt(stop[k], text, i)}
Earliest(S) == CHOOSE i \in S : \A j \in S : i <= j

\* C1: a returned generate call (sync or async, streaming or not) returns
\* the full text cut immediately before the earliest occurrence of any stop
\* sequence of the supplied list, and the full text itself when none occurs,
\* when the list is empty or when no list is supplied.
C1_StopTruncation ==
    \A c \in Slots :
        calls[c].pc = "returned" =>
            LET full == calls[c].text
                occ == Occurrences(calls[c].stop.list, full)
            IN /\ full = IF calls[c].streamed
                         THEN Concat(Texts(calls[c].produced))
                         ELSE Sequences0(calls[c].prompt)
               /\ calls[c].result =
                      IF calls[c].stop.given /\ occ # {}
                      THEN SubSeq(full, 1, Earliest(occ) - 1)
                      ELSE full

\* A streamed generate call with two stop sequences that returned a proper,
\* non-empty prefix of the full text.
C1_Witness ==
    \E c \in Slots :
        /\ calls[c].pc = "returned"
        /\ calls[c].streamed
        /\ Len(calls[c].stop.list) = 2
        /\ calls[c].result # calls[c].text
        /\ calls[c].result # <<>>

C3_SyncEqualsAsync ==
    \A c, d \in Slots :
        ( /\ calls[c].kind = "call" /\ calls[c].pc = "returned"
          /\ calls[d].kind = "acall" /\ calls[d].pc = "returned"
          /\ calls[c].prompt = calls[d].prompt
          /\ calls[c].stop = calls[d].stop
          /\ calls[c].stop \in EmptyStopArgs )
        => calls[c].result = calls[d].result

\* A _call and an _acall that both streamed and returned a non-empty text.
C3_Witness ==
    \E c, d \in Slots :
        /\ calls[c].kind = "call" /\ calls[c].pc = "returned"
        /\ calls[d].kind = "acall" /\ calls[d].pc = "returned"
        /\ calls[c].stop = calls[d].stop
        /\ calls[c].streamed /\ calls[d].streamed
        /\ Len(calls[d].result) > 1

\* C4: without the client library, construction fails with the import
\* error, no pipeline was created or invoked and no handle is stored; with
\* it, the pipeline is created exactly once, with task "text_generation",
\* the model identifier and the configuration options.
C4_Construction ==
    /\ Len(createLog) <= 1
    /\ ~installed =>
          /\ createLog = <<>>
          /\ adapter.pipeline = None
          /\ adapter.state \in {"unbuilt", "failed"}
          /\ adapter.state = "failed" => adapter.error = "ImportError"
          /\ \A c \in Slots : calls[c].invocations = 0
    /\ (installed /\ adapter.state # "unbuilt") => Len(createLog) = 1
    /\ adapter.state = "ready" =>
          createLog = << [ task |-> "text_generation",
                           model_path |-> adapter.model,
                           kwargs |-> IF adapter.config.given
                                      THEN adapter.config.opts ELSE {} ] >>

\* Construction has failed for want of the client library.
C4_Witness ==
    /\ ~installed
    /\ adapter.state = "failed"
    /\ adapter.error = "ImportError"

\* The streaming call waits for a text that will never come: the worker
\* thread is gone and the streamer was not ended.
BlockedForever(c) ==
    /\ calls[c].pc = "getting"
    /\ calls[c].queue = <<>>
    /\ calls[c].worker = "crashed"

\* C5: the pipeline is invoked at most once per call, and once the engine
\* has raised, the call ends only by raising that error to its caller (it
\* neither returns normally nor waits forever), also when the engine runs
\* in the worker thread.
C5_EngineErrorPropagates ==
    \A c \in Slots :
        /\ calls[c].invocations <= 1
        /\ calls[c].pc = "raised" => calls[c].error = "EngineError"
        /\ calls[c].worker \in {"raising", "crashed"} =>
              /\ Over(c) => calls[c].pc = "raised"
              /\ ~BlockedForever(c)

\* C6: a streaming call never ends, by exhaustion or because the consumer
\* stopped iterating, with its worker still running or not joined.
C6_WorkerJoinedBeforeEnd ==
    \A c \in Slots :
        (Over(c) /\ calls[c].started > 0) => (calls[c].joined /\ Terminated(c))

\* The event-loop thread is inside call c, blocked on the engine.
WaitingOnEngine(c) ==
    \/ calls[c].pc = "invoking"
    \/ calls[c].pc = "getting" /\ calls[c].queue = <<>> /\ calls[c].worker = "running"
    \/ calls[c].pc = "joining" /\ ~Terminated(c)

\* C7: while an _acall waits on the engine, another task scheduled on the
\* same event loop can take its step.
C7_AcallDoesNotBlockLoop ==
    \A c, d \in Slots :
        ( /\ c # d
          /\ calls[c].kind = "acall" /\ WaitingOnEngine(c)
          /\ calls[d].pc = "scheduled" )
        => ENABLED AsyncRun(d)

\* C8: when a streaming call has ended, by exhaustion or because the
\* consumer stopped iterating, the observer has been told the text of each
\* produced chunk exactly once, in order; without an observer, nothing.
C8_EveryChunkReported ==
    \A c \in Slots :
        (calls[c].streamed /\ Over(c)) =>
            calls[c].notified =
                IF calls[c].observer THEN Texts(calls[c].produced) ELSE <<>>

C10_StreamEnds ==
    /\ [](\A c \in Tasks1 :
            /\ calls[c].started = IF calls[c].streamed THEN 1 ELSE 0
            /\ calls[c].pc = "done" =>
                   /\ calls[c].joined /\ Terminated(c)
                   /\ Len(calls[c].produced) = Len(EngineChunks(c)))
    /\ [][\A c \in Tasks1 :
            calls[c].pc = "done" => calls'[c].produced = calls[c].produced]_vars
    /\ \A c \in Tasks1 :
          (calls[c].streamed /\ ~EngineRaises(calls[c].prompt))
              ~> (calls[c].pc \in {"done", "returned"})

\* A stream of two chunks that has ended, its worker joined.
C10_Witness ==
    \E c \in Slots :
        /\ calls[c].kind \in StreamKinds
        /\ calls[c].pc = "done"
        /\ calls[c].joined
        /\ Len(calls[c].produced) = 2

====
